---- MODULE Spec2Model ----
(***************************************************************************)
(* State-machine model of the OpenClaw fix-recipe engine                   *)
(* (scripts/lib/fix_engine.py) and of the error-fixer command that drives  *)
(* it (scripts/error-fixer.py), and of three tools that stand beside it:   *)
(* the skill scanner's risk score (skill-vetting/scripts/scan.py), the     *)
(* marketplace cache (scripts/lib/clawhub_cache.py) and the recommendation *)
(* engine (scripts/lib/recommendation_engine.py).                          *)
(*                                                                         *)
(* JSON / Python values are tagged records [t |-> <type>, v |-> <value>]   *)
(* so that a field holding a value of the wrong type can be represented    *)
(* and tested for (x.t) before its payload (x.v) is looked at.             *)
(***************************************************************************)
EXTENDS Integers, Sequences, FiniteSets, Bags, TLC

VARIABLES
    catalog,       \* content of data/fix-recipes.json (never written by the program)
    eng,           \* FixEngine object: "new" (before __init__), "ready", "raised"
    recipes,       \* FixEngine.recipes: insertion-ordered dict, as a sequence of [k, v]
    pc,            \* "idle" | "running": whether an execute() call is inside its loop
    call,          \* the most recent call into the engine: operation and arguments
    i,             \* execute(): loop counter of enumerate(recipe.steps, start=1)
    actions,       \* execute(): local list `actions`
    needs_manual,  \* execute(): local list `needs_manual`
    invoked,       \* execute_step invocations made by the most recent call, with answers
    ret,           \* value (or exception) the last finished call gave its caller
    main,          \* error-fixer main(): options, matched errors, loop cursors, exit
    findings,      \* SkillScanner.findings: the categories of the findings, as a bag
    now,           \* time.time(), in seconds since the model's start
    ticks,         \* how often the clock was advanced
    cache,         \* content of the marketplace cache file
    reco           \* RecommendationEngine: the call in progress or its result

\* The state of the three tools.
tools == <<findings, now, ticks, cache, reco>>

vars == <<catalog, eng, recipes, pc, call, i, actions, needs_manual, invoked, ret, main,
          findings, now, ticks, cache, reco>>

(***************************************************************************)
(* Bounds of the model.                                                    *)
(***************************************************************************)
MaxSteps == 3      \* longest step list of a well-typed catalog entry
MaxRecipes == 2    \* most entries of a catalog document
MaxErrors == 2     \* most matched patterns of one error-fixer run
MaxFindings == 12  \* most findings of one scan
MaxTicks == 4      \* most advances of the clock
MaxFound == 2      \* longest list of arbitrary skills a search returns
MaxChannels == 3   \* most enabled channels
MaxTop == 2        \* largest top handed to recommend

(***************************************************************************)
(* Python / JSON values.                                                   *)
(***************************************************************************)
Str(s) == [t |-> "str", v |-> s]
Bool(b) == [t |-> "bool", v |-> b]
List(q) == [t |-> "list", v |-> q]
Dict(f) == [t |-> "dict", v |-> f]
None == [t |-> "null", v |-> ""]
EmptyDict == Dict(<<>>)

\* Python truthiness (bool(x)) of a value.
Truthy(x) ==
    CASE x.t = "bool" -> x.v
      [] x.t = "str" -> x.v # ""
      [] x.t = "null" -> FALSE
      [] x.t = "list" -> x.v # <<>>
      [] x.t = "dict" -> DOMAIN x.v # {}
      [] OTHER -> TRUE

\* hash(x) succeeds: lists and dicts are unhashable (TypeError as a dict key).
Hashable(x) == x.t \notin {"list", "dict"}

\* d.get(k, default) on a JSON object.
dict_get(d, k, default) == IF k \in DOMAIN d.v THEN d.v[k] ELSE default

\* An exception leaving a call.
Raise(e) == [t |-> "raise", v |-> e]

(***************************************************************************)
(* FixEngine.recipes as an insertion-ordered Python dict.                  *)
(***************************************************************************)
Has(d, key) == \E n \in 1..Len(d) : d[n].k = key
Lookup(d, key) == d[CHOOSE n \in 1..Len(d) : d[n].k = key].v
\* d[key] = val: an existing key keeps its position, a new key goes last.
Store(d, key, val) ==
    IF Has(d, key)
    THEN [n \in 1..Len(d) |-> IF d[n].k = key THEN [k |-> key, v |-> val] ELSE d[n]]
    ELSE Append(d, [k |-> key, v |-> val])
Values(d) == [n \in 1..Len(d) |-> d[n].v]

(***************************************************************************)
(* Catalog loading: load_json, FixEngine._load_recipes, _parse_recipes.    *)
(***************************************************************************)
Missing == [t |-> "missing", v |-> ""]

\* utils.load_json: the parsed document; an empty collection for a missing
\* or unreadable file.
load_json(file) == IF file.t = "missing" THEN EmptyDict ELSE file

FixRecipe(item) ==
    [t |-> "FixRecipe",
     id |-> dict_get(item, "id", Str("")),
     title |-> dict_get(item, "title", Str("")),
     safe_auto |-> dict_get(item, "safe_auto", Bool(FALSE)),
     description |-> dict_get(item, "description", Str("")),
     steps |-> dict_get(item, "steps", List(<<>>)),
     rollback |-> dict_get(item, "rollback", None),
     requires_restart |-> dict_get(item, "requires_restart", Bool(FALSE))]

\* Outcome of a load: the exception that left the loader ("" for none) and the dict.
Loaded(rs) == [raised |-> "", recipes |-> rs]
LoadRaised(e) == [raised |-> e, recipes |-> <<>>]

\* Body of the for loop of _parse_recipes over the remaining items.
RECURSIVE parse_items(_, _)
parse_items(items, rs) ==
    IF items = <<>> THEN Loaded(rs)
    ELSE LET item == Head(items) IN
         IF item.t # "dict"
         THEN LoadRaised("AttributeError")   \* item.get: not caught by the except clause
         ELSE LET recipe == FixRecipe(item) IN
              IF Hashable(recipe.id)
              THEN parse_items(Tail(items), Store(rs, recipe.id, recipe))
              ELSE parse_items(Tail(items), rs)   \* TypeError: caught, entry skipped

_parse_recipes(data) ==
    IF data.t # "dict" THEN LoadRaised("AttributeError")   \* data.get
    ELSE LET rl == dict_get(data, "recipes", List(<<>>)) IN
         CASE rl.t = "list" -> parse_items(rl.v, <<>>)
           [] rl.t \in {"str", "dict"} ->
                \* iterating yields characters / keys: strings, which have no .get
                IF Truthy(rl) THEN LoadRaised("AttributeError") ELSE Loaded(<<>>)
           [] OTHER -> LoadRaised("TypeError")             \* not iterable

_load_recipes(file) ==
    LET data == load_json(file) IN
    IF Truthy(data) THEN _parse_recipes(data) ELSE Loaded(<<>>)

\* FixEngine(): __init__ with the catalog file as it is on disk.
FixEngineInit ==
    /\ eng = "new"
    /\ LET r == _load_recipes(catalog) IN
       /\ eng' = IF r.raised = "" THEN "ready" ELSE "raised"
       /\ recipes' = r.recipes
       /\ ret' = IF r.raised = "" THEN None ELSE Raise(r.raised)
    /\ UNCHANGED <<catalog, pc, call, i, actions, needs_manual, invoked, main, tools>>

(***************************************************************************)
(* Queries: get_recipe, can_auto_fix, list_safe_recipes, list_all_recipes. *)
(***************************************************************************)
\* Variant: an unknown id falls back to the first recipe of the catalog.
get_recipe_with_fallback(recipe_id) ==
    IF Has(recipes, recipe_id) THEN Lookup(recipes, recipe_id)
    ELSE IF recipes # <<>> THEN recipes[1].v ELSE None

\* self.recipes.get(recipe_id)
get_recipe(recipe_id) ==
    IF Has(recipes, recipe_id) THEN Lookup(recipes, recipe_id) ELSE None

\* Variant: every known recipe counts as auto-fixable.
can_auto_fix_any_known(recipe_id) == Bool(get_recipe(recipe_id).t # "null")

\* recipe.safe_auto if recipe else False (a FixRecipe object is always truthy)
can_auto_fix(recipe_id) ==
    LET recipe == get_recipe(recipe_id) IN
    IF recipe.t # "null" THEN recipe.safe_auto ELSE Bool(FALSE)

list_safe_recipes == List(SelectSeq(Values(recipes), LAMBDA r : Truthy(r.safe_auto)))

list_all_recipes == List(Values(recipes))

(***************************************************************************)
(* FixEngine.execute.                                                      *)
(***************************************************************************)
\* str(x) as an f-string renders it.
Format(x) ==
    CASE x.t = "str" -> x.v
      [] x.t = "null" -> "None"
      [] x.t = "bool" -> IF x.v THEN "True" ELSE "False"
      [] OTHER -> "<" \o x.t \o ">"

FixResult(recipe_id, success, message, actions_taken, manual) ==
    [t |-> "FixResult", recipe_id |-> recipe_id, success |-> success,
     message |-> message, actions_taken |-> actions_taken, needs_manual |-> manual]

\* No value yet: the call is still running.
Pending == [t |-> "pending", v |-> ""]

NotFound(recipe_id) ==
    FixResult(recipe_id, FALSE, "Recipe not found: " \o Format(recipe_id), <<>>, <<>>)

Failed(recipe_id, n, message, acts, manual) ==
    FixResult(recipe_id, FALSE, "Failed at step " \o ToString(n) \o ": " \o message,
              acts, manual)

\* Variant: the success message names the recipe by its id.
Succeeded_by_id(recipe, acts, manual) ==
    FixResult(recipe.id, TRUE, "Successfully executed " \o Format(recipe.id),
              acts, manual)

Succeeded(recipe, acts, manual) ==
    FixResult(recipe.id, TRUE, "Successfully executed " \o Format(recipe.title),
              acts, manual)

\* prefix = "[DRY RUN] " if dry_run else ""
Prefix(dry_run) == IF dry_run THEN "[DRY RUN] " ELSE ""

\* Variant: steps numbered from 0.
ActionLine_zero_based(dry_run, n, message) ==
    Prefix(dry_run) \o "Step " \o ToString(n - 1) \o ": " \o message

\* f"{prefix}Step {i}: {message}"
ActionLine(dry_run, n, message) ==
    Prefix(dry_run) \o "Step " \o ToString(n) \o ": " \o message

\* Variants: the abort test with the dry-run condition inverted, and without it.
Aborts_in_dry_run(success, dry_run) == ~success /\ dry_run
Aborts_in_any_mode(success, dry_run) == ~success

\* The live-mode abort test of the loop body: not success and not dry_run.
Aborts(success, dry_run) == ~success /\ ~dry_run

\* Variant: the list of the previous call is reused.
NewActions_kept == actions

\* The locals a call starts its loop with: actions = [], needs_manual = [].
NewActions == <<>>
NewNeedsManual == <<>>

\* params = {} when the caller passed None.
EffectiveParams(params) == IF params.t = "null" THEN EmptyDict ELSE params

\* What execute_step may answer: (success, message).  The executor is an
\* external collaborator; any answer is possible for any step.
Messages == {"done", "oops"}
Answers == [success : BOOLEAN, message : Messages]

\* A call into the engine as the caller made it.
Call(op, recipe_id, dry_run, params) ==
    [op |-> op, recipe_id |-> recipe_id, dry_run |-> dry_run, params |-> params]
NoCall == Call("", None, FALSE, None)

\* The locals of execute() are kept after it returned, for inspection, until
\* the caller's next call into the engine; a call that never reaches lines
\* 101-102 starts without them.
NoFrame ==
    /\ i' = 0
    /\ actions' = <<>>
    /\ needs_manual' = <<>>
    /\ invoked' = <<>>

\* Entry of execute(recipe_id, dry_run, params) up to the first execute_step call.
ExecuteEnter(recipe_id, dry_run, params) ==
    LET recipe == get_recipe(recipe_id) IN
    /\ call' = Call("execute", recipe_id, dry_run, params)
    /\ IF recipe.t = "null"
       THEN /\ ret' = NotFound(recipe_id)
            /\ NoFrame
            /\ UNCHANGED pc
       ELSE /\ actions' = NewActions
            /\ needs_manual' = NewNeedsManual
            /\ invoked' = <<>>
            /\ i' = 0
            /\ IF recipe.steps.t # "list"
               THEN /\ ret' = Raise("TypeError")     \* enumerate(None)
                    /\ pc' = "idle"
               ELSE IF recipe.steps.v = <<>>
               THEN /\ ret' = Succeeded(recipe, actions', needs_manual')
                    /\ pc' = "idle"
               ELSE /\ ret' = Pending
                    /\ pc' = "running"
    /\ UNCHANGED <<catalog, eng, recipes, tools>>

\* One iteration of the loop: execute_step answers `ans` for the next step.
ExecuteStep(ans) ==
    LET recipe == get_recipe(call.recipe_id)
        n == i + 1
        step == recipe.steps.v[n]
    IN
    /\ pc = "running"
    /\ i' = n
    /\ invoked' = Append(invoked, [step |-> step, dry_run |-> call.dry_run,
                                   params |-> EffectiveParams(call.params),
                                   success |-> ans.success, message |-> ans.message])
    /\ actions' = Append(actions, ActionLine(call.dry_run, n, ans.message))
    /\ IF Aborts(ans.success, call.dry_run)
       THEN /\ ret' = Failed(call.recipe_id, n, ans.message, actions', needs_manual)
            /\ pc' = "idle"
       ELSE IF n = Len(recipe.steps.v)
       THEN /\ ret' = Succeeded(recipe, actions', needs_manual)
            /\ pc' = "idle"
       ELSE UNCHANGED <<ret, pc>>
    /\ UNCHANGED <<catalog, eng, recipes, call, needs_manual, tools>>

(***************************************************************************)
(* A caller using the engine directly.                                     *)
(***************************************************************************)
NoMain == [pc |-> "api"]
Callable == eng = "ready" /\ pc = "idle" /\ main.pc = "api"

RecipeNames == {"r1", "r2"}
ArgIds == {Str(x) : x \in RecipeNames} \cup {Str("does-not-exist")}
ArgParams == {None, Dict([service |-> Str("gateway")])}

GetRecipe ==
    /\ Callable
    /\ \E id \in ArgIds :
           /\ ret' = get_recipe(id)
           /\ call' = Call("get_recipe", id, FALSE, None)
    /\ NoFrame
    /\ UNCHANGED <<catalog, eng, recipes, pc, main, tools>>

CanAutoFix ==
    /\ Callable
    /\ \E id \in ArgIds :
           /\ ret' = can_auto_fix(id)
           /\ call' = Call("can_auto_fix", id, FALSE, None)
    /\ NoFrame
    /\ UNCHANGED <<catalog, eng, recipes, pc, main, tools>>

ListSafeRecipes ==
    /\ Callable
    /\ ret' = list_safe_recipes
    /\ call' = Call("list_safe_recipes", None, FALSE, None)
    /\ NoFrame
    /\ UNCHANGED <<catalog, eng, recipes, pc, main, tools>>

ListAllRecipes ==
    /\ Callable
    /\ ret' = list_all_recipes
    /\ call' = Call("list_all_recipes", None, FALSE, None)
    /\ NoFrame
    /\ UNCHANGED <<catalog, eng, recipes, pc, main, tools>>

Execute ==
    /\ Callable
    /\ \E id \in ArgIds, dry_run \in BOOLEAN, params \in ArgParams :
           ExecuteEnter(id, dry_run, params)
    /\ UNCHANGED main

Step ==
    /\ main.pc = "api"
    /\ \E ans \in Answers : ExecuteStep(ans)
    /\ UNCHANGED main

(***************************************************************************)
(* Catalog documents.                                                      *)
(***************************************************************************)
SeqsUpTo(S, n) == UNION {[1..m -> S] : m \in 0..n}

\* The k-th step of a recipe; the steps of one recipe are pairwise distinct.
StepSpec(k) == Dict([kind |-> Str("shell"), payload |-> Str("action " \o ToString(k))])
StepsOf(n) == [k \in 1..n |-> StepSpec(k)]

\* Entries with every field present and of its declared type.
TypedItems ==
    {Dict([id |-> Str(x), title |-> Str("Fix " \o x), safe_auto |-> Bool(s),
           steps |-> List(StepsOf(n))]) :
        x \in RecipeNames, s \in BOOLEAN, n \in 0..MaxSteps}

DistinctIds(items) ==
    \A m, n \in 1..Len(items) : m # n => items[m].v.id # items[n].v.id

Document(items) == Dict([recipes |-> List(items)])

\* Well-typed catalogs: ids are unique within the catalog.
TypedCatalogs ==
    {Document(items) : items \in {q \in SeqsUpTo(TypedItems, MaxRecipes) : DistinctIds(q)}}

(***************************************************************************)
(* error-fixer main().  ErrorDatabase and ErrorParser are collaborators:   *)
(* what they return is an input.  A matched pattern is represented by the  *)
(* one field main() hands to the engine, fix_recipe_id.                    *)
(***************************************************************************)
ErrorPattern(ref) == [fix_recipe_id |-> ref]
PatternRefs == {None} \cup {Str(x) : x \in RecipeNames}
Patterns == {ErrorPattern(ref) : ref \in PatternRefs}

RECURSIVE Flatten(_)
Flatten(lists) == IF lists = <<>> THEN <<>> ELSE Head(lists) \o Flatten(Tail(lists))

\* What diagnose() returned for each parsed record, in parse order: at most
\* MaxErrors records and MaxErrors matched patterns in all.
PatternLists == SeqsUpTo(Patterns, MaxErrors)
Diagnoses ==
    {d \in SeqsUpTo(PatternLists, MaxErrors) : Len(Flatten(d)) <= MaxErrors}

\* errors.append(...) only "if patterns:"
Matched(diagnoses) == SelectSeq(diagnoses, LAMBDA ps : ps # <<>>)

\* Variant: any linked recipe counts, whether or not the engine allows it.
AutoFixable_any_linked(p) == Truthy(p.fix_recipe_id)

\* p.fix_recipe_id and fix_engine.can_auto_fix(p.fix_recipe_id)
AutoFixable(p) == Truthy(p.fix_recipe_id) /\ Truthy(can_auto_fix(p.fix_recipe_id))

\* Variant: the loops go over the matched patterns a second time.
Visits_twice(m) == Flatten(m.errors) \o Flatten(m.errors)

\* The (error, pattern) pairs in the order the two nested loops visit them.
Visits(m) == Flatten(m.errors)

\* auto_fixable as counted by the panel loop.
CountAutoFixable(m) == Cardinality({n \in 1..Len(Visits(m)) : AutoFixable(Visits(m)[n])})

MainStart(category, error_code, input_file, auto_fix, dry_run, json_output) ==
    [pc |-> "start", category |-> category, error_code |-> error_code,
     input_file |-> input_file, auto_fix |-> auto_fix, dry_run |-> dry_run,
     json_output |-> json_output, errors |-> <<>>, k |-> 0,
     executed |-> <<>>, printed |-> <<>>, out |-> "", exit |-> -1]

Exit(m, out, status) == [m EXCEPT !.pc = "exit", !.out = out, !.exit = status]

EngineIdle == <<catalog, eng, recipes, pc, call, i, actions, needs_manual, invoked, ret>>

\* --category: list the patterns of the category and return.
MainCategory ==
    /\ main.pc = "start"
    /\ main.category
    /\ main' = Exit(main, "category listing", 0)
    /\ UNCHANGED <<EngineIdle, tools>>

\* After the errors were collected: "No errors detected", or on to the output.
Collected(m, errors) ==
    IF errors = <<>> THEN Exit(m, "No errors detected.", 0)
    ELSE [m EXCEPT !.pc = "report", !.errors = errors]

\* Variant: a lookup miss is treated as an empty scan.
MainLookup_miss_as_empty ==
    /\ main.pc = "start"
    /\ ~main.category /\ main.error_code
    /\ \E patterns \in PatternLists :
           main' = IF patterns = <<>>
                   THEN Collected(main, <<>>)
                   ELSE Collected(main, <<patterns>>)
    /\ UNCHANGED <<EngineIdle, tools>>

\* --error CODE: direct lookup; a miss exits with status 1.
MainLookup ==
    /\ main.pc = "start"
    /\ ~main.category /\ main.error_code
    /\ \E patterns \in PatternLists :
           main' = IF patterns = <<>>
                   THEN Exit(main, "Error code not found", 1)
                   ELSE Collected(main, <<patterns>>)
    /\ UNCHANGED <<EngineIdle, tools>>

\* --input FILE: parse the log file and diagnose every record.
MainParseFile ==
    /\ main.pc = "start"
    /\ ~main.category /\ ~main.error_code /\ main.input_file
    /\ \E d \in Diagnoses : main' = Collected(main, Matched(d))
    /\ UNCHANGED <<EngineIdle, tools>>

\* Neither: parse stdin and diagnose every record.
MainParseStdin ==
    /\ main.pc = "start"
    /\ ~main.category /\ ~main.error_code /\ ~main.input_file
    /\ \E d \in Diagnoses : main' = Collected(main, Matched(d))
    /\ UNCHANGED <<EngineIdle, tools>>

\* Output: JSON and return, or the panels and the summary; then the auto-fix
\* loop is entered only with --auto-fix and auto_fixable > 0.
MainReport ==
    /\ main.pc = "report"
    /\ main' = IF main.json_output THEN Exit(main, "json", 0)
               ELSE IF main.auto_fix /\ CountAutoFixable(main) > 0
               THEN [main EXCEPT !.pc = "autofix", !.out = "Executing auto-fixes..."]
               ELSE Exit(main, "summary", 0)
    /\ UNCHANGED <<EngineIdle, tools>>

\* Variant: the loop always runs recipes live.
MainDryRun_live(m) == FALSE

\* dry_run=dry_run: the mode main() passes to execute().
MainDryRun(m) == m.dry_run

\* The auto-fix loop prints the result as soon as execute() has returned.
Printed(m) ==
    IF pc' = "idle" /\ ret'.t = "FixResult"
    THEN [m EXCEPT !.printed = Append(@, ret'.success)]
    ELSE m

\* Variant: the loop is left after the first recipe that failed.
MainAutoFix_stop_at_failure ==
    /\ main.pc = "autofix"
    /\ pc = "idle"
    /\ LET todo == {n \in (main.k + 1)..Len(Visits(main)) : AutoFixable(Visits(main)[n])} IN
       IF todo = {} \/ (\E n \in 1..Len(main.printed) : ~main.printed[n])
       THEN /\ main' = [main EXCEPT !.pc = "exit", !.exit = 0, !.k = Len(Visits(main))]
            /\ UNCHANGED <<EngineIdle, tools>>
       ELSE LET n == CHOOSE x \in todo : \A y \in todo : x <= y
                id == Visits(main)[n].fix_recipe_id
            IN /\ ExecuteEnter(id, MainDryRun(main), None)
               /\ main' = Printed([main EXCEPT !.k = n, !.executed = Append(@, id)])

\* The auto-fix loop up to its next execute() call, or to its end.
MainAutoFix ==
    /\ main.pc = "autofix"
    /\ pc = "idle"
    /\ LET todo == {n \in (main.k + 1)..Len(Visits(main)) : AutoFixable(Visits(main)[n])} IN
       IF todo = {}
       THEN /\ main' = [main EXCEPT !.pc = "exit", !.exit = 0, !.k = Len(Visits(main))]
            /\ UNCHANGED <<EngineIdle, tools>>
       ELSE LET n == CHOOSE x \in todo : \A y \in todo : x <= y
                id == Visits(main)[n].fix_recipe_id
            IN /\ ExecuteEnter(id, MainDryRun(main), None)
               /\ main' = Printed([main EXCEPT !.k = n, !.executed = Append(@, id)])

\* execute_step answers while main() waits inside fix_engine.execute.
MainStep ==
    /\ main.pc = "autofix"
    /\ \E ans \in Answers : ExecuteStep(ans)
    /\ main' = Printed(main)

(***************************************************************************)
(* SkillScanner (skill-vetting/scripts/scan.py).  risk_score reads nothing *)
(* of a finding but its category and nothing of the list but how often a   *)
(* category occurs, so self.findings is kept as the bag of its categories. *)
(***************************************************************************)
\* The keys of PATTERNS: every category a finding can have.
Categories ==
    {"code_execution", "subprocess", "obfuscation", "network", "file_operations",
     "env_access", "prompt_injection"}

critical == {"code_execution", "subprocess", "prompt_injection"}

Min(a, b) == IF a <= b THEN a ELSE b

\* sum(1 for f in self.findings if f['category'] in cats)
CountIn(f, cats) == BagCardinality([c \in BagToSet(f) \cap cats |-> f[c]])

\* Variant: every other finding counts, without the cap at ten.
risk_score_uncapped_warnings(f) ==
    Min(100, CountIn(f, critical) * 30 + CountIn(f, Categories \ critical) * 3)

risk_score(f) ==
    LET crit_cnt == CountIn(f, critical)
        warn_cnt == CountIn(f, Categories \ critical)
    IN Min(100, crit_cnt * 30 + Min(warn_cnt, 10) * 3)

risk_level(f) ==
    LET s == risk_score(f) IN
    IF s >= 81 THEN "BLOCKED"
    ELSE IF s >= 51 THEN "DANGER"
    ELSE IF s >= 21 THEN "CAUTION"
    ELSE "SAFE"

\* SkillScanner(path): a new scanner has no findings.
SkillScannerInit ==
    /\ findings # EmptyBag
    /\ findings' = EmptyBag
    /\ UNCHANGED <<EngineIdle, main, now, ticks, cache, reco>>

\* _scan_file: a pattern of some category matched outside the whitelist.
ScanFinding ==
    /\ BagCardinality(findings) < MaxFindings
    /\ \E category \in Categories : findings' = findings (+) SetToBag({category})
    /\ UNCHANGED <<EngineIdle, main, now, ticks, cache, reco>>

(***************************************************************************)
(* The marketplace cache (scripts/lib/clawhub_cache.py).  time.time() is   *)
(* the variable now; the cache file holds a JSON object.                   *)
(***************************************************************************)
CACHE_MAX_AGE == 86400

Num(n) == [t |-> "num", v |-> n]

\* Variant: a cache of exactly the maximal age still counts as fresh.
is_cache_fresh_inclusive(cache_data) ==
    IF ~Truthy(cache_data) \/ "timestamp" \notin DOMAIN cache_data.v
    THEN FALSE
    ELSE now - cache_data.v.timestamp.v <= CACHE_MAX_AGE

is_cache_fresh(cache_data) ==
    IF ~Truthy(cache_data) \/ "timestamp" \notin DOMAIN cache_data.v
    THEN FALSE
    ELSE LET cache_age == now - cache_data.v.timestamp.v
         IN cache_age < CACHE_MAX_AGE

\* data["timestamp"] = time.time(); the updated data is written and returned.
save_cache(data) ==
    Dict([k \in DOMAIN data.v \cup {"timestamp"} |->
             IF k = "timestamp" THEN Num(now) ELSE data.v[k]])

\* What a caller hands to save_cache: a new object, or the one it loaded.
CacheData == {EmptyDict, Dict([skills |-> List(<<>>)]), cache}

SaveCache ==
    /\ \E data \in CacheData : cache' = save_cache(data)
    /\ UNCHANGED <<EngineIdle, main, findings, now, ticks, reco>>

\* Time passes: a second, a second less than the maximal age, or all of it.
Delays == {1, CACHE_MAX_AGE - 1, CACHE_MAX_AGE}

Tick ==
    /\ ticks < MaxTicks
    /\ \E d \in Delays : now' = now + d
    /\ ticks' = ticks + 1
    /\ UNCHANGED <<EngineIdle, main, findings, cache, reco>>

\* No recommendation call has been made.
NoReco == [pc |-> "none"]

\* The tools at rest, for the specifications that do not use them.
ToolsAside ==
    /\ findings = EmptyBag
    /\ now = 0
    /\ ticks = 0
    /\ cache = EmptyDict
    /\ reco = NoReco

(***************************************************************************)
(* RecommendationEngine (scripts/lib/recommendation_engine.py).            *)
(* ClawHubClient is a collaborator: the list client.search returns is an   *)
(* input.  Scores are counted in half points, the unit all of the code's   *)
(* increments (0.5, 1.0, 1.5, 2.0, 3.0) are multiples of.  Strings are     *)
(* atoms here, so str.lower() and the substring test `a in b` are tables   *)
(* over the texts of the skills below.                                     *)
(***************************************************************************)
CHANNEL_SKILLS ==
    [whatsapp |-> <<"whatsapp-media", "whatsapp-status", "qr-code-gen">>,
     telegram |-> <<"telegram-inline", "telegram-webhooks", "image-gen">>,
     discord |-> <<"discord-voice", "discord-slash", "game-stats">>,
     slack |-> <<"slack-workflows", "slack-apps", "jira-integration">>,
     signal |-> <<"signal-groups", "privacy-tools">>,
     teams |-> <<"teams-meetings", "sharepoint-integration">>]

USE_CASE_KEYWORDS ==
    [calendar |-> <<"calendar", "schedule", "meeting", "event", "reminder">>,
     image |-> <<"image", "photo", "picture", "vision", "ocr", "generation">>,
     code |-> <<"code", "github", "gitlab", "deploy", "ci/cd">>,
     automation |-> <<"workflow", "automation", "task", "schedule">>,
     analytics |-> <<"analytics", "metrics", "stats", "dashboard">>]

\* A SkillInfo, with the fields the engine reads.
SkillInfo(slug, name, description, downloads, verified, tags) ==
    [slug |-> slug, name |-> name, description |-> description,
     downloads |-> downloads, verified |-> verified, tags |-> tags]

\* Skills the marketplace may hold: three that differ in every respect, and a
\* series of verified ones that differ in their slug and their downloads.
SmallSkills ==
    {SkillInfo("whatsapp-media-pro", "WhatsApp Media", "Send photo and image albums",
               5000, TRUE, <<"WhatsApp", "image">>),
     SkillInfo("image-gen", "Image Gen", "Picture generation for Telegram",
               500, FALSE, <<>>),
     SkillInfo("notes", "Notes", "Plain notes", 50, FALSE, <<>>)}

Bulk(n) ==
    SkillInfo("bulk-" \o ToString(n), "Bulk", "Bulk tool",
              IF n % 3 = 0 THEN 5000 ELSE IF n % 3 = 1 THEN 500 ELSE 50, TRUE, <<>>)

\* str.lower() on the texts, tags and arguments in use.
Lower(s) ==
    CASE s = "Bulk" -> "bulk"
      [] s = "Bulk tool" -> "bulk tool"
      [] s = "Image Gen" -> "image gen"
      [] s = "Notes" -> "notes"
      [] s = "Picture generation for Telegram" -> "picture generation for telegram"
      [] s = "Plain notes" -> "plain notes"
      [] s = "Send photo and image albums" -> "send photo and image albums"
      [] s = "Telegram" -> "telegram"
      [] s = "WhatsApp" -> "whatsapp"
      [] s = "WhatsApp Media" -> "whatsapp media"
      [] OTHER -> s

\* All pairs <<a, b>> with `a in b`, a an affinity slug, a keyword, a channel
\* or a use case, b a slug or a lower-cased name or description.
Occurrences ==
    {<<"generation", "picture generation for telegram">>,
     <<"image", "image gen">>,
     <<"image", "image-gen">>,
     <<"image", "send photo and image albums">>,
     <<"image-gen", "image-gen">>,
     <<"notes", "notes">>,
     <<"notes", "plain notes">>,
     <<"photo", "send photo and image albums">>,
     <<"picture", "picture generation for telegram">>,
     <<"telegram", "picture generation for telegram">>,
     <<"whatsapp", "whatsapp media">>,
     <<"whatsapp", "whatsapp-media-pro">>,
     <<"whatsapp-media", "whatsapp-media-pro">>}

Contains(part, text) == <<part, text>> \in Occurrences

Recommendation(skill, score) == [skill |-> skill, score |-> score]

\* The score of _score_skill, in half points.
_score_skill(skill, channel, use_case) ==
    LET channel_lower == Lower(channel.v)
        use_case_lower == Lower(use_case.v)
        keywords == IF use_case_lower \in DOMAIN USE_CASE_KEYWORDS
                    THEN USE_CASE_KEYWORDS[use_case_lower]
                    ELSE <<use_case_lower>>
        desc_lower == Lower(skill.description)
        matches == Cardinality({n \in 1..Len(keywords) : Contains(keywords[n], desc_lower)})
        tags_lower == {Lower(skill.tags[n]) : n \in 1..Len(skill.tags)}
    IN (IF skill.verified THEN 4 ELSE 0)
       + (IF skill.downloads > 1000 THEN 2 ELSE IF skill.downloads > 100 THEN 1 ELSE 0)
       + (IF /\ Truthy(channel)
             /\ channel_lower \in DOMAIN CHANNEL_SKILLS
             /\ \E n \in 1..Len(CHANNEL_SKILLS[channel_lower]) :
                   Contains(CHANNEL_SKILLS[channel_lower][n], skill.slug)
          THEN 6 ELSE 0)
       + (IF /\ Truthy(channel)
             /\ \/ Contains(channel_lower, Lower(skill.name))
                \/ Contains(channel_lower, desc_lower)
          THEN 4 ELSE 0)
       + (IF Truthy(use_case) THEN matches * 3 ELSE 0)
       + (IF skill.tags # <<>> /\ Truthy(channel) /\ channel_lower \in tags_lower
          THEN 2 ELSE 0)
       + (IF skill.tags # <<>> /\ Truthy(use_case) /\ use_case_lower \in tags_lower
          THEN 2 ELSE 0)

\* list.sort(key=lambda r: r.score, reverse=True): descending and stable.
RECURSIVE SortByScore(_)
SortByScore(recs) ==
    IF recs = <<>> THEN <<>>
    ELSE LET r == Head(recs)
             rest == SortByScore(Tail(recs))
             k == Cardinality({n \in 1..Len(rest) : rest[n].score > r.score})
         IN SubSeq(rest, 1, k) \o <<r>> \o SubSeq(rest, k + 1, Len(rest))

\* The slice q[:top].
Slice(q, top) ==
    IF top >= 0 THEN SubSeq(q, 1, Min(top, Len(q)))
    ELSE SubSeq(q, 1, IF Len(q) + top > 0 THEN Len(q) + top ELSE 0)

\* recommend(channel, use_case, top) when client.search returned skills.
recommend(channel, use_case, top, skills) ==
    LET scored == [n \in 1..Len(skills) |->
                      Recommendation(skills[n], _score_skill(skills[n], channel, use_case))]
        recommendations == SelectSeq(scored, LAMBDA r : r.score > 0)
    IN Slice(SortByScore(recommendations), top)

\* Variant: every recommendation of a channel is kept, seen before or not.
RECURSIVE Merge_keep_all(_, _)
Merge_keep_all(m, recs) ==
    IF recs = <<>> THEN m
    ELSE Merge_keep_all([all_recommendations |-> Append(m.all_recommendations, Head(recs)),
                         seen_slugs |-> m.seen_slugs \cup {Head(recs).skill.slug}],
                        Tail(recs))

\* The inner loop of suggest_for_config: a recommendation is appended unless
\* its slug was seen.
RECURSIVE Merge(_, _)
Merge(m, recs) ==
    IF recs = <<>> THEN m
    ELSE IF Head(recs).skill.slug \in m.seen_slugs THEN Merge(m, Tail(recs))
    ELSE Merge([all_recommendations |-> Append(m.all_recommendations, Head(recs)),
                seen_slugs |-> m.seen_slugs \cup {Head(recs).skill.slug}],
               Tail(recs))

\* What client.search may return: short lists of the three skills, and three
\* overlapping runs of seven of the series.
BulkLists == {[j \in 1..7 |-> Bulk(k + j)] : k \in {0, 5, 10}}
Found == SeqsUpTo(SmallSkills, MaxFound) \cup BulkLists

\* Arguments of recommend, and what detect_channels may return: the names of
\* the enabled channels, each once.
ChannelNames == {"whatsapp", "Telegram", "matrix"}
ChannelArgs == {None} \cup {Str(c) : c \in ChannelNames}
UseCaseArgs == {None, Str("image"), Str("Notes")}
EnabledChannels ==
    {q \in SeqsUpTo(ChannelNames, MaxChannels) :
        \A m, n \in 1..Len(q) : m # n => q[m] # q[n]}

\* The engine keeps nothing from one call to the next: each call starts here.
RecoIdle == reco.pc = "none"

Recommend ==
    /\ RecoIdle
    /\ \E channel \in ChannelArgs, use_case \in UseCaseArgs, top \in 0..MaxTop,
          skills \in Found :
           reco' = [pc |-> "done", op |-> "recommend", channel |-> channel,
                    use_case |-> use_case, top |-> top, skills |-> skills,
                    ret |-> recommend(channel, use_case, top, skills)]
    /\ UNCHANGED <<EngineIdle, main, findings, now, ticks, cache>>

\* suggest_for_config up to its first search, or to its return when no
\* channel is enabled.
SuggestForConfig ==
    /\ RecoIdle
    /\ \E enabled_channels \in EnabledChannels :
           reco' = [pc |-> IF enabled_channels = <<>> THEN "done" ELSE "suggest",
                    op |-> "suggest_for_config",
                    enabled_channels |-> enabled_channels, k |-> 0,
                    all_recommendations |-> <<>>, seen_slugs |-> {}, ret |-> <<>>]
    /\ UNCHANGED <<EngineIdle, main, findings, now, ticks, cache>>

\* One pass of the loop over the enabled channels, and after the last one
\* the re-sort of all_recommendations in place and the return of its first
\* ten.
SuggestChannel ==
    /\ reco.pc = "suggest"
    /\ \E skills \in Found :
           LET channel == reco.enabled_channels[reco.k + 1]
               recs == recommend(Str(channel), None, 5, skills)
               m == Merge([all_recommendations |-> reco.all_recommendations,
                           seen_slugs |-> reco.seen_slugs], recs)
               last == reco.k + 1 = Len(reco.enabled_channels)
               sorted == SortByScore(m.all_recommendations)
           IN reco' = [reco EXCEPT
                          !.k = @ + 1,
                          !.all_recommendations =
                              IF last THEN sorted ELSE m.all_recommendations,
                          !.seen_slugs = m.seen_slugs,
                          !.pc = IF last THEN "done" ELSE "suggest",
                          !.ret = IF last
                                  THEN Slice(sorted, 10)
                                  ELSE <<>>]
    /\ UNCHANGED <<EngineIdle, main, findings, now, ticks, cache>>

(***************************************************************************)
(* Specification of the engine after construction.                         *)
(***************************************************************************)
Init ==
    /\ catalog \in TypedCatalogs
    /\ eng = "ready"
    /\ recipes = _load_recipes(catalog).recipes
    /\ pc = "idle"
    /\ call = NoCall
    /\ i = 0
    /\ actions = <<>>
    /\ needs_manual = <<>>
    /\ invoked = <<>>
    /\ ret = None
    /\ main = NoMain
    /\ ToolsAside

Next ==
    \/ GetRecipe
    \/ CanAutoFix
    \/ ListSafeRecipes
    \/ ListAllRecipes
    \/ Execute
    \/ Step

Spec == Init /\ [][Next]_vars

(***************************************************************************)
(* Specification of one run of the error-fixer command, next to a caller   *)
(* that uses the engine directly, over catalogs of two-step recipes.       *)
(***************************************************************************)
CliItems ==
    {Dict([id |-> Str(x), title |-> Str("Fix " \o x), safe_auto |-> Bool(s),
           steps |-> List(StepsOf(2))]) :
        x \in RecipeNames, s \in BOOLEAN}

CliCatalogs ==
    {Document(items) : items \in {q \in SeqsUpTo(CliItems, MaxRecipes) : DistinctIds(q)}}

Mains ==
    {MainStart(c, e, f, a, d, j) : c, e, f, a, d, j \in BOOLEAN}

InitCli ==
    /\ catalog \in CliCatalogs
    /\ eng = "ready"
    /\ recipes = _load_recipes(catalog).recipes
    /\ pc = "idle"
    /\ call = NoCall
    /\ i = 0
    /\ actions = <<>>
    /\ needs_manual = <<>>
    /\ invoked = <<>>
    /\ ret = None
    /\ main \in Mains \cup {NoMain}
    /\ ToolsAside

NextCli ==
    \/ MainCategory
    \/ MainLookup
    \/ MainParseFile
    \/ MainParseStdin
    \/ MainReport
    \/ MainAutoFix
    \/ MainStep
    \/ Execute
    \/ Step

SpecCli == InitCli /\ [][NextCli]_vars

(***************************************************************************)
(* Specification of construction: FixEngine() over any content of the      *)
(* catalog file, followed by calls into the engine it built.               *)
(***************************************************************************)
\* A field the entry does not have.
Absent == [t |-> "absent", v |-> ""]

\* The JSON object with the fields that are not Absent.
Object(fields) ==
    Dict([k \in {x \in DOMAIN fields : fields[x].t # "absent"} |-> fields[k]])

\* Catalog entries: id present, absent or of a wrong (unhashable) type; steps
\* present, empty, absent or of a wrong type; and entries that are no records.
LoadIds == {Str(x) : x \in RecipeNames} \cup {Absent, List(<<Str("r1")>>)}
LoadSteps == {List(StepsOf(1)), List(<<>>), Absent, None}
LoadItems ==
    {Object([id |-> idv, title |-> Str("Fix"), safe_auto |-> Bool(TRUE), steps |-> st]) :
        idv \in LoadIds, st \in LoadSteps}
    \cup {Str("oops"), None}

Files ==
    {Missing, EmptyDict, List(<<>>), List(<<Str("oops")>>), Dict([recipes |-> None]),
     Dict([version |-> Str("1")])}
    \cup {Document(items) : items \in SeqsUpTo(LoadItems, MaxRecipes)}

InitLoad ==
    /\ catalog \in Files
    /\ eng = "new"
    /\ recipes = <<>>
    /\ pc = "idle"
    /\ call = NoCall
    /\ i = 0
    /\ actions = <<>>
    /\ needs_manual = <<>>
    /\ invoked = <<>>
    /\ ret = None
    /\ main = NoMain
    /\ ToolsAside

NextLoad ==
    \/ FixEngineInit
    \/ GetRecipe
    \/ CanAutoFix
    \/ Execute
    \/ Step

SpecLoad == InitLoad /\ [][NextLoad]_vars

(***************************************************************************)
(* Specifications of the tools; the engine and the command stay aside.     *)
(***************************************************************************)
EngineAside ==
    /\ catalog = Document(<<>>)
    /\ eng = "ready"
    /\ recipes = <<>>
    /\ pc = "idle"
    /\ call = NoCall
    /\ i = 0
    /\ actions = <<>>
    /\ needs_manual = <<>>
    /\ invoked = <<>>
    /\ ret = None
    /\ main = NoMain

\* One scanner object and the findings its scan collects.
InitScan ==
    /\ EngineAside
    /\ findings = EmptyBag
    /\ now = 0
    /\ ticks = 0
    /\ cache = EmptyDict
    /\ reco = NoReco

NextScan ==
    \/ SkillScannerInit
    \/ ScanFinding

SpecScan == InitScan /\ [][NextScan]_vars

\* The cache file, empty or written without a timestamp, while time passes.
InitCache ==
    /\ EngineAside
    /\ findings = EmptyBag
    /\ now = 0
    /\ ticks = 0
    /\ cache \in {EmptyDict, Dict([skills |-> List(<<>>)])}
    /\ reco = NoReco

NextCache ==
    \/ SaveCache
    \/ Tick

SpecCache == InitCache /\ [][NextCache]_vars

\* One call into the recommendation engine.
InitReco ==
    /\ EngineAside
    /\ findings = EmptyBag
    /\ now = 0
    /\ ticks = 0
    /\ cache = EmptyDict
    /\ reco = NoReco

NextReco ==
    \/ Recommend
    \/ SuggestForConfig
    \/ SuggestChannel

SpecReco == InitReco /\ [][NextReco]_vars

(***************************************************************************)
(* Properties.  What a call should give is read off the catalog document   *)
(* and the executor's recorded answers, not off the engine's own state.    *)
(***************************************************************************)
Entries == IF catalog.t = "dict" /\ "recipes" \in DOMAIN catalog.v /\ catalog.v.recipes.t = "list"
           THEN catalog.v.recipes.v ELSE <<>>
IsRecord(e) == e.t = "dict"
Listed(id) == \E n \in 1..Len(Entries) : IsRecord(Entries[n]) /\ "id" \in DOMAIN Entries[n].v
                                          /\ Entries[n].v.id = id
Entry(id) == Entries[CHOOSE n \in 1..Len(Entries) :
                        IsRecord(Entries[n]) /\ "id" \in DOMAIN Entries[n].v
                        /\ Entries[n].v.id = id].v
EntrySteps(id) == Entry(id).steps.v
IsExecute == call.op = "execute"
Failures == {n \in 1..Len(invoked) : ~invoked[n].success}
FirstFailure == CHOOSE n \in Failures : \A m \in Failures : n <= m
Line(k) == (IF call.dry_run THEN "[DRY RUN] Step " ELSE "Step ")
           \o ToString(k) \o ": " \o invoked[k].message

\* C1: in live mode execute stops at the first step i whose executor reports
\* failure: no later step is ever handed to the executor, and the result is
\* success=false, "Failed at step i: <message of step i>", with exactly the i
\* entries of steps 1..i in actionsTaken.
C1_LiveFailFast ==
    (IsExecute /\ ~call.dry_run /\ Failures # {}) =>
        LET n == FirstFailure IN
        /\ Len(invoked) = n
        /\ pc = "idle"
        /\ ret.t = "FixResult"
        /\ ret.recipe_id = call.recipe_id
        /\ ret.success = FALSE
        /\ ret.message = "Failed at step " \o ToString(n) \o ": " \o invoked[n].message
        /\ Len(ret.actions_taken) = n
        /\ \A k \in 1..n : ret.actions_taken[k] = Line(k)

\* A live run of a three-step recipe whose second step failed.
C1_Witness ==
    /\ IsExecute /\ ~call.dry_run /\ Listed(call.recipe_id)
    /\ Len(EntrySteps(call.recipe_id)) = 3
    /\ Len(invoked) = 2 /\ invoked[1].success /\ ~invoked[2].success
    /\ ret.t = "FixResult" /\ ret.message = "Failed at step 2: oops"

\* C2: a dry run hands every step of the recipe to the executor exactly once,
\* whatever the steps answer, and returns success=true with one actionsTaken
\* entry per step.
C2_DryRunCompletes ==
    (IsExecute /\ call.dry_run /\ Listed(call.recipe_id)) =>
        LET steps == EntrySteps(call.recipe_id) IN
        /\ pc = "running" => (ret.t = "pending" /\ Len(invoked) < Len(steps))
        /\ pc = "idle" =>
              /\ Len(invoked) = Len(steps)
              /\ \A k \in 1..Len(steps) : invoked[k].step = steps[k]
              /\ ret.t = "FixResult"
              /\ ret.success = TRUE
              /\ Len(ret.actions_taken) = Len(steps)

\* A finished dry run of a three-step recipe whose second step reported failure.
C2_Witness ==
    /\ IsExecute /\ call.dry_run /\ pc = "idle" /\ Listed(call.recipe_id)
    /\ Len(EntrySteps(call.recipe_id)) = 3
    /\ Len(invoked) = 3 /\ ~invoked[2].success
    /\ ret.t = "FixResult" /\ ret.success

\* C3: execute on an id that is no key of the catalog returns at once, in
\* either mode, with success=false, "Recipe not found: <id>", no actions, no
\* manual items, and without invoking the executor.
C3_UnknownRecipe ==
    (IsExecute /\ ~Listed(call.recipe_id)) =>
        /\ pc = "idle"
        /\ invoked = <<>>
        /\ ret = [t |-> "FixResult", recipe_id |-> call.recipe_id, success |-> FALSE,
                  message |-> "Recipe not found: " \o call.recipe_id.v,
                  actions_taken |-> <<>>, needs_manual |-> <<>>]

\* execute("does-not-exist", dry_run=True) on a catalog that holds recipes.
C3_Witness ==
    /\ IsExecute /\ call.recipe_id = Str("does-not-exist") /\ call.dry_run
    /\ recipes # <<>>
    /\ ret.t = "FixResult" /\ ret.message = "Recipe not found: does-not-exist"

\* C4: the executor gets the recipe's steps in catalog order, none skipped or
\* repeated; the k-th actionsTaken entry is "Step k: <k-th message>", with the
\* "[DRY RUN] " prefix exactly in a dry run; and there are always as many
\* entries as executor invocations.
C4_OrderAndTrail ==
    (IsExecute /\ Listed(call.recipe_id)) =>
        LET steps == EntrySteps(call.recipe_id) IN
        /\ Len(actions) = Len(invoked)
        /\ Len(invoked) = i
        /\ i <= Len(steps)
        /\ \A k \in 1..Len(invoked) :
              /\ invoked[k].step = steps[k]
              /\ actions[k] = Line(k)
        /\ ret.t = "FixResult" => ret.actions_taken = actions

\* A dry run in its third step, the steps having answered differently.
C4_Witness ==
    /\ IsExecute /\ call.dry_run /\ Len(actions) = 3
    /\ actions[1] = "[DRY RUN] Step 1: done"
    /\ actions[2] = "[DRY RUN] Step 2: oops"
    /\ actions[3] = "[DRY RUN] Step 3: done"

KnownSafe(id) == Listed(id) /\ Entry(id).safe_auto = Bool(TRUE)

\* C5: can_auto_fix(id) is true exactly when id is a key of the catalog whose
\* safeAuto flag is true, is false (no exception) for an absent id, and the
\* call leaves the engine as it was, so that asking again gives the same.
C5_CanAutoFix ==
    /\ [](\A id \in ArgIds : can_auto_fix(id) = Bool(KnownSafe(id)))
    /\ [](call.op = "can_auto_fix" => ret = Bool(KnownSafe(call.recipe_id)))
    /\ [][call'.op = "can_auto_fix" =>
            /\ recipes' = recipes /\ catalog' = catalog /\ eng' = eng /\ pc' = pc
            /\ \A id \in ArgIds : can_auto_fix(id)' = can_auto_fix(id)]_vars

\* can_auto_fix answered true for one recipe while another known recipe is
\* not safe and a third id is absent.
C5_Witness ==
    /\ call.op = "can_auto_fix" /\ ret = Bool(TRUE)
    /\ \E id \in ArgIds : Listed(id) /\ ~KnownSafe(id)

\* C6: when a dry run is requested (execute with dryRun=true, or the command
\* with --dry-run), every executor invocation of that run is a dry-run
\* invocation.
C6_DryRunNeverLive ==
    ((IsExecute /\ call.dry_run) \/ (main.pc # "api" /\ main.dry_run)) =>
        \A k \in 1..Len(invoked) : invoked[k].dry_run = TRUE

\* The command with --auto-fix --dry-run inside its second recipe.
C6_Witness ==
    /\ main.pc = "autofix" /\ main.dry_run
    /\ Len(main.executed) = 2 /\ Len(invoked) = 2

WellFormed(e) ==
    /\ IsRecord(e)
    /\ "id" \in DOMAIN e.v /\ e.v.id.t = "str"
    /\ "steps" \in DOMAIN e.v /\ e.v.steps.t = "list"

\* C7 (as claimed): once the catalog is loaded no recipe of the engine has an
\* empty step list, and execute never succeeds on a recipe without running a
\* step.
C7_NonEmptySteps ==
    eng = "ready" =>
        /\ \A n \in 1..Len(recipes) :
              recipes[n].v.steps.t = "list" => recipes[n].v.steps.v # <<>>
        /\ (IsExecute /\ ret.t = "FixResult" /\ ret.success) => invoked # <<>>

\* C8 (as claimed): from a catalog mixing well-formed and malformed entries
\* the engine holds exactly the well-formed ones.
C8_OnlyWellFormed ==
    (/\ eng = "ready"
     /\ \E n \in 1..Len(Entries) : WellFormed(Entries[n])
     /\ \E n \in 1..Len(Entries) : ~WellFormed(Entries[n])) =>
        /\ \A n \in 1..Len(recipes) :
              \E m \in 1..Len(Entries) :
                  WellFormed(Entries[m]) /\ Entries[m].v.id = recipes[n].k
        /\ \A m \in 1..Len(Entries) :
              WellFormed(Entries[m]) => Has(recipes, Entries[m].v.id)

\* C9 (as claimed): whatever the catalog file holds, constructing the engine
\* never raises.
C9_NeverRaises == eng # "raised"

\* The result execute owes its caller, from the catalog, the arguments and the
\* executor's answers alone.
Owed ==
    LET id == call.recipe_id IN
    IF ~Listed(id)
    THEN [t |-> "FixResult", recipe_id |-> id, success |-> FALSE,
          message |-> "Recipe not found: " \o id.v,
          actions_taken |-> <<>>, needs_manual |-> <<>>]
    ELSE LET lines == [k \in 1..Len(invoked) |-> Line(k)] IN
         IF ~call.dry_run /\ Failures # {}
         THEN [t |-> "FixResult", recipe_id |-> id, success |-> FALSE,
               message |-> "Failed at step " \o ToString(FirstFailure) \o ": "
                           \o invoked[FirstFailure].message,
               actions_taken |-> lines, needs_manual |-> <<>>]
         ELSE [t |-> "FixResult", recipe_id |-> id, success |-> TRUE,
               message |-> "Successfully executed " \o Entry(id).title.v,
               actions_taken |-> lines, needs_manual |-> <<>>]

\* C10: no call changes the recipe map or a recipe in it, every execute call
\* starts with empty actions and needs_manual, and its result is determined
\* by its arguments and the executor's answers, whatever was called before.
C10_ReadOnlyNoHistory ==
    /\ [][recipes' = recipes /\ catalog' = catalog]_vars
    /\ []((IsExecute /\ pc = "running" /\ invoked = <<>>) =>
              (actions = <<>> /\ needs_manual = <<>>))
    /\ []((IsExecute /\ pc = "idle") => ret = Owed)

\* A live execute call that failed at its first step has returned; the call
\* before it may have been any other.
C10_Witness ==
    /\ IsExecute /\ pc = "idle" /\ ret.t = "FixResult" /\ ~ret.success
    /\ Len(ret.actions_taken) = 1 /\ Len(EntrySteps(call.recipe_id)) = 3

\* One run of the command, as opposed to a caller of the engine's API.
InCommand == main.pc # "api"

\* The matched patterns whose recipe is a key of the catalog with safeAuto
\* true, in collection order, and the recipe ids of a list of patterns.
LinkedSafe ==
    SelectSeq(Flatten(main.errors),
              LAMBDA p : p.fix_recipe_id.t = "str" /\ KnownSafe(p.fix_recipe_id))
RecipeIds(ps) == [n \in 1..Len(ps) |-> ps[n].fix_recipe_id]

\* The run went through the auto-fix loop.
LoopEntered == main.out = "Executing auto-fixes..."

\* C11 (as claimed): FixEngine.execute is called at most once per run of the
\* command, whatever the input.
C11_AtMostOneExecution == InCommand => Len(main.executed) <= 1

\* How often a recipe id occurs in a list of recipe ids.
Times(id, ids) == Cardinality({n \in 1..Len(ids) : ids[n] = id})

\* C11 (amended): one run calls execute at most once for each matched pattern
\* whose recipe is auto-fixable: never more often than there are such
\* patterns, and no recipe more often than such patterns link to it.
C11_OncePerPattern ==
    InCommand =>
        /\ Len(main.executed) <= Len(LinkedSafe)
        /\ \A n \in 1..Len(main.executed) :
              Times(main.executed[n], main.executed)
                  <= Times(main.executed[n], RecipeIds(LinkedSafe))

\* A finished run that executed the same recipe twice.
C11_Witness ==
    /\ InCommand /\ main.pc = "exit"
    /\ main.executed = <<Str("r1"), Str("r1")>>

\* C12: --error with a code that matches nothing exits with status 1 and
\* "Error code not found"; a log or stdin scan that matches nothing exits with
\* status 0 and "No errors detected."; neither prints a diagnosis or executes
\* a recipe, and status 1 arises in no other way.
C12_MissVersusEmptyScan ==
    (InCommand /\ main.pc = "exit") =>
        /\ main.exit \in {0, 1}
        /\ main.exit = 1 => (main.error_code /\ main.errors = <<>>)
        /\ (~main.category /\ main.errors = <<>>) =>
              /\ main.executed = <<>> /\ invoked = <<>> /\ call = NoCall
              /\ IF main.error_code
                 THEN main.exit = 1 /\ main.out = "Error code not found"
                 ELSE main.exit = 0 /\ main.out = "No errors detected."

\* --error CODE --auto-fix with an unknown code, over a catalog with recipes.
C12_Witness ==
    /\ InCommand /\ main.pc = "exit" /\ main.exit = 1
    /\ main.auto_fix /\ recipes # <<>>
    /\ main.out = "Error code not found"

\* C13: a live execute of a known recipe returns success=true, "Successfully
\* executed <title>" and one actionsTaken entry per step exactly when every
\* step's executor reported success; any failure gives success=false; and the
\* outcome is always a FixResult, never an exception.
C13_LiveOutcome ==
    (IsExecute /\ ~call.dry_run /\ Listed(call.recipe_id) /\ pc = "idle") =>
        LET steps == EntrySteps(call.recipe_id)
            all_ok == /\ Len(invoked) = Len(steps)
                      /\ \A k \in 1..Len(invoked) : invoked[k].success
        IN /\ ret.t = "FixResult"
           /\ ret.success <=> all_ok
           /\ (\E k \in 1..Len(invoked) : ~invoked[k].success) => ~ret.success
           /\ ret.success =>
                 /\ ret.message = "Successfully executed " \o Entry(call.recipe_id).title.v
                 /\ Len(ret.actions_taken) = Len(steps)

\* A live run of a three-step recipe in which every step succeeded.
C13_Witness ==
    /\ IsExecute /\ ~call.dry_run /\ pc = "idle" /\ Listed(call.recipe_id)
    /\ Len(EntrySteps(call.recipe_id)) = 3
    /\ ret.t = "FixResult" /\ ret.success /\ Len(ret.actions_taken) = 3

\* C14: the command calls execute only with --auto-fix, without --category
\* and without --json, and only for the recipe of a matched pattern that is a
\* key of the catalog with safeAuto true; without --auto-fix nothing is ever
\* executed, --dry-run or not.
C14_AutoFixGate ==
    InCommand =>
        /\ (main.executed # <<>> \/ invoked # <<>> \/ call # NoCall) =>
              (main.auto_fix /\ ~main.category /\ ~main.json_output)
        /\ call # NoCall => (IsExecute /\ main.executed # <<>>)
        /\ \A n \in 1..Len(main.executed) :
              /\ KnownSafe(main.executed[n])
              /\ \E m \in 1..Len(Flatten(main.errors)) :
                    Flatten(main.errors)[m].fix_recipe_id = main.executed[n]

\* A finished --auto-fix run over two matched patterns, one linking a recipe
\* that is known but not safe: only the other one was executed.
C14_Witness ==
    /\ InCommand /\ main.pc = "exit" /\ Len(main.executed) = 1
    /\ Len(Flatten(main.errors)) = 2
    /\ \E m \in 1..2 :
          LET id == Flatten(main.errors)[m].fix_recipe_id IN
          id.t = "str" /\ Listed(id) /\ ~KnownSafe(id)

\* One run of the command that goes on until it has ended.
SpecCliFair == SpecCli /\ WF_vars(NextCli)

\* C15: a recipe that fails does not stop the auto-fix loop: the recipes of
\* all auto-fixable patterns are executed in collection order, each result is
\* printed, the loop reaches its end and the exit status is 0.
C15_FailureContained ==
    /\ []((InCommand /\ LoopEntered) =>
             /\ \E n \in 0..Len(LinkedSafe) :
                   main.executed = SubSeq(RecipeIds(LinkedSafe), 1, n)
             /\ main.pc = "exit" =>
                   /\ main.exit = 0
                   /\ main.executed = RecipeIds(LinkedSafe)
                   /\ Len(main.printed) = Len(main.executed))
    /\ ((InCommand /\ LoopEntered) ~> (main.pc = "exit" /\ main.exit = 0))

\* A finished live run whose first recipe failed and whose second succeeded.
C15_Witness ==
    /\ InCommand /\ main.pc = "exit" /\ main.exit = 0
    /\ main.printed = <<FALSE, TRUE>>

\* The findings in the three critical categories, and all the others.
CritCount ==
    CopiesIn("code_execution", findings) + CopiesIn("subprocess", findings)
    + CopiesIn("prompt_injection", findings)
OtherCount == BagCardinality(findings) - CritCount

\* C16: the risk score is min(100, 30 * critical findings + 3 * min(other
\* findings, 10)) and lies in 0..100; the level is BLOCKED from 81, DANGER in
\* 51..80, CAUTION in 21..50 and SAFE in 0..20; without a critical finding
\* the level is never above CAUTION; and a further finding never lowers the
\* score.
C16_RiskScore ==
    /\ [](LET raw == 30 * CritCount + 3 * (IF OtherCount > 10 THEN 10 ELSE OtherCount)
              score == risk_score(findings)
              level == risk_level(findings)
          IN /\ score = (IF raw > 100 THEN 100 ELSE raw)
             /\ score \in 0..100
             /\ level = "BLOCKED" <=> score \in 81..100
             /\ level = "DANGER" <=> score \in 51..80
             /\ level = "CAUTION" <=> score \in 21..50
             /\ level = "SAFE" <=> score \in 0..20
             /\ CritCount = 0 => level \in {"SAFE", "CAUTION"})
    /\ [][BagCardinality(findings') = BagCardinality(findings) + 1 =>
             risk_score(findings') >= risk_score(findings)]_vars

\* Eleven findings, none of them critical: the score stays at 30, CAUTION.
C16_Witness ==
    /\ OtherCount = 11 /\ CritCount = 0
    /\ risk_score(findings) = 30 /\ risk_level(findings) = "CAUTION"

\* C17: is_cache_fresh is true exactly when the cache is non-empty, has a
\* timestamp and is younger than 86400 seconds; save_cache stamps the data
\* with the current time, so the cache is fresh right after a save and is
\* stale once 86400 seconds or more have passed since the last save.
C17_Freshness ==
    /\ [](is_cache_fresh(cache) <=>
             /\ DOMAIN cache.v # {}
             /\ "timestamp" \in DOMAIN cache.v
             /\ now - cache.v.timestamp.v < 86400)
    /\ [](("timestamp" \in DOMAIN cache.v /\ now - cache.v.timestamp.v >= 86400) =>
             ~is_cache_fresh(cache))
    /\ [][cache' # cache =>
             /\ cache'.v.timestamp = Num(now)
             /\ is_cache_fresh(cache)']_vars

\* A cache saved some time after the start is exactly 86400 seconds old and
\* no longer fresh.
C17_Witness ==
    /\ "timestamp" \in DOMAIN cache.v
    /\ cache.v.timestamp.v > 0
    /\ now - cache.v.timestamp.v = 86400
    /\ ~is_cache_fresh(cache)

NonIncreasing(recs) == \A n \in 1..(Len(recs) - 1) : recs[n].score >= recs[n + 1].score

\* C18: recommend returns at most top recommendations, each with a score
\* above 0, in non-increasing order of score; suggest_for_config returns at
\* most 10, in non-increasing order of score, no two with the same slug, and
\* none when no channel is enabled.
C18_Ranking ==
    reco.pc = "done" =>
        IF reco.op = "recommend"
        THEN /\ Len(reco.ret) <= reco.top
             /\ \A n \in 1..Len(reco.ret) : reco.ret[n].score > 0
             /\ NonIncreasing(reco.ret)
        ELSE /\ Len(reco.ret) <= 10
             /\ NonIncreasing(reco.ret)
             /\ \A m, n \in 1..Len(reco.ret) :
                   m # n => reco.ret[m].skill.slug # reco.ret[n].skill.slug
             /\ reco.enabled_channels = <<>> => reco.ret = <<>>

\* suggest_for_config over three channels found more than ten different
\* skills, one of them for two channels, and returned ten.
C18_Witness ==
    /\ reco.pc = "done" /\ reco.op = "suggest_for_config"
    /\ Len(reco.enabled_channels) = 3
    /\ Len(reco.all_recommendations) > 10
    /\ Len(reco.ret) = 10
    /\ reco.ret[1].score > reco.ret[10].score

====
